---- MODULE Spec2Model ----
(***************************************************************************)
(* Model of models/acgan-modified/main.py: the random-walk masking routine *)
(* mask(), the ACGAN training loop ACGAN.train() with its checkpoint       *)
(* actions, and the accuracy / recall evaluation test_masked_accuracy().   *)
(*                                                                         *)
(* Pixel values are kept in fixed point, in units of 1/255: a raw pixel p  *)
(* of 0..255 is the integer 255*p, and the normalised pixel                *)
(* (p - 127.5) / 127.5 is the integer 2*p - 255.  The interval [-1,1] is    *)
(* therefore -255..255.                                                    *)
(***************************************************************************)
EXTENDS Integers, Sequences, FiniteSets, TLC

(* ------------------------------------------------------------------------ *)
(* Program constants                                                        *)
(* ------------------------------------------------------------------------ *)
RANDOM_WALK_LENGTH == 40
VISIBLE_RADIUS == 5
IMG_SIZE == 28
START_MIN == 7
START_MAX == 20
NUM_CLASSES == 10
UNIT == 255

(* ------------------------------------------------------------------------ *)
(* Bounds of the model                                                      *)
(* ------------------------------------------------------------------------ *)
MaxPat == 2            \* longest repeated pattern of walk directions
MaxStartOffset == 0    \* starts lie within this distance of START_MIN / START_MAX
MaxArg == 1            \* explicit arguments walk_length = k, visible_radius = k - 1
MaxDraws == 2          \* random draws available to each mask() call of the class
TrainN == 2            \* size of the training set
TestN == 1             \* size of the test set
MaxEpochs == 2         \* train() is called with epochs in 0..MaxEpochs
MaxBatch == 2          \* ... batch_size in 1..MaxBatch
MaxInterval == 2       \* ... sample_interval in 1..MaxInterval
MaxMissing == 1        \* metric inputs: up to this many classes absent from y_test
MaxExtra == 1          \* ... up to this many test images beyond one per class
MaxErrors == 1         \* ... up to this many test images not classified correctly

Max(a, b) == IF a >= b THEN a ELSE b
Min(a, b) == IF a <= b THEN a ELSE b

Cells == (0..(IMG_SIZE - 1)) \X (0..(IMG_SIZE - 1))

(* A raw 28x28 grayscale image (values 0..255, stored as 255*p).  Image k   *)
(* has a dark border row, a saturated row and a gradient elsewhere.        *)
RawPixel(k, c) ==
    IF c[1] = 0 THEN 0
    ELSE IF c[1] = IMG_SIZE - 1 THEN 255
    ELSE (c[1] * 7 + c[2] * 13 + k * 101) % 256

RawImage(k) == [shape |-> <<IMG_SIZE, IMG_SIZE>>,
                px |-> [c \in Cells |-> UNIT * RawPixel(k, c)]]

(* X.astype(float32) - 127.5) / 127.5 on one image *)
Normalize(image) ==
    [shape |-> image.shape,
     px |-> [c \in Cells |-> (2 * image.px[c] - UNIT * UNIT) \div UNIT]]

(* np.expand_dims(X, axis=3) on one image: (28,28) -> (28,28,1) *)
ExpandDims(image) == [shape |-> Append(image.shape, 1), px |-> image.px]

(* ------------------------------------------------------------------------ *)
(* mask()                                                                   *)
(* ------------------------------------------------------------------------ *)

(* the four branches of the position update *)
Move(agent_position, step) ==
    IF step = 0 THEN <<agent_position[1] - 1, agent_position[2]>>
    ELSE IF step = 1 THEN <<agent_position[1], agent_position[2] + 1>>
    ELSE IF step = 2 THEN <<agent_position[1] + 1, agent_position[2]>>
    ELSE IF step = 3 THEN <<agent_position[1], agent_position[2] - 1>>
    ELSE agent_position

\* the window with range(a - r, a + r): the far edge is lost
UpdateMask_OpenRange(agent_position) ==
    {c \in ((agent_position[1] - VISIBLE_RADIUS)..(agent_position[1] + VISIBLE_RADIUS - 1))
           \X ((agent_position[2] - VISIBLE_RADIUS)..(agent_position[2] + VISIBLE_RADIUS - 1)) :
        /\ 0 <= c[1] /\ c[1] < IMG_SIZE
        /\ 0 <= c[2] /\ c[2] < IMG_SIZE}

(* the cells set to 1 by the two nested range() loops around a position *)
UpdateMask(agent_position) ==
    {c \in ((agent_position[1] - VISIBLE_RADIUS)..(agent_position[1] + VISIBLE_RADIUS))
           \X ((agent_position[2] - VISIBLE_RADIUS)..(agent_position[2] + VISIBLE_RADIUS)) :
        /\ 0 <= c[1] /\ c[1] < IMG_SIZE
        /\ 0 <= c[2] /\ c[2] < IMG_SIZE}

(* for i in range(RANDOM_WALK_LENGTH): move, then mark the window *)
RECURSIVE WalkLoop(_, _, _, _)
WalkLoop(i, agent_position, random_walk_steps, ones) ==
    IF i > RANDOM_WALK_LENGTH THEN ones
    ELSE LET p == Move(agent_position, random_walk_steps[i])
         IN  WalkLoop(i + 1, p, random_walk_steps, ones \cup UpdateMask(p))

(* mask(image, walk_length, visible_radius); start and random_walk_steps    *)
(* are the values drawn by random.randint                                   *)
mask(image, walk_length, visible_radius, start, random_walk_steps) ==
    LET img2d == IF Len(image.shape) = 3
                 THEN [shape |-> SubSeq(image.shape, 1, 2), px |-> image.px]
                 ELSE image
        ones == WalkLoop(1, start, random_walk_steps, {})
    IN  [shape |-> img2d.shape,
         px |-> [c \in Cells |-> img2d.px[c] * (IF c \in ones THEN 1 ELSE 0)]]

(* ------------------------------------------------------------------------ *)
(* Random draws of mask() enumerated by the model                           *)
(* ------------------------------------------------------------------------ *)
StartCoords == (START_MIN..(START_MIN + MaxStartOffset))
               \cup ((START_MAX - MaxStartOffset)..START_MAX)
Starts == StartCoords \X StartCoords

Patterns == UNION {[1..n -> 0..3] : n \in 1..MaxPat}
StepsOf(pat) == [i \in 1..RANDOM_WALK_LENGTH |-> pat[((i - 1) % Len(pat)) + 1]]
WalkSteps == {StepsOf(pat) : pat \in Patterns}

(* the arguments (walk_length, visible_radius): omitted, or given *)
MaskArgs == {<<RANDOM_WALK_LENGTH, VISIBLE_RADIUS>>}
            \cup {<<k, k - 1>> : k \in 1..MaxArg}

(* a raw image, and a normalised one with a channel axis *)
MaskInputs == {RawImage(1), ExpandDims(Normalize(RawImage(2)))}

(* pseudo-random draws (start, steps) used where mask() is called by the    *)
(* class: draw k has a fixed start in [START_MIN,START_MAX]^2 and a walk    *)
Draw(k) ==
    <<<<START_MIN + ((5 * k) % (START_MAX - START_MIN + 1)),
        START_MAX - ((3 * k) % (START_MAX - START_MIN + 1))>>,
      StepsOf(<<k % 4, (k + (k \div 4) + 1) % 4>>)>>
DrawIds == 1..MaxDraws

(* ------------------------------------------------------------------------ *)
(* The data set returned by mnist.load_data()                               *)
(* ------------------------------------------------------------------------ *)
X_train == [i \in 1..TrainN |-> RawImage(i)]
y_train == [i \in 1..TrainN |-> (3 * i) % NUM_CLASSES]
X_test == [j \in 1..TestN |-> RawImage(TrainN + j)]
Y_test == [j \in 1..TestN |-> (7 * j + 1) % NUM_CLASSES]

(* ------------------------------------------------------------------------ *)
(* The networks.  A forward pass is a fixed deterministic function of the   *)
(* weights and of the input.                                                *)
(* ------------------------------------------------------------------------ *)

(* the weights of a network are identified by the number of updates they   *)
(* have received; 0 is the initial value                                    *)

(* generator.predict on one image: the last layer is tanh, so every output  *)
(* pixel lies in [-1,1]; the output has shape (28,28,1)                     *)
generator_predict(w, x) ==
    [shape |-> <<IMG_SIZE, IMG_SIZE, 1>>,
     px |-> [c \in Cells |->
                ((x.px[c] + 97 * w + 31 * c[1] + 17 * c[2] + 1) % (2 * UNIT + 1)) - UNIT]]

Feature(x) == x.px[<<13, 13>>] + x.px[<<7, 20>>] + x.px[<<20, 7>>] + x.px[<<1, 1>>]

(* discriminator.predict on one image: [validity, label]; label is the row  *)
(* of NUM_CLASSES class scores                                              *)
discriminator_predict(w, x) ==
    [validity |-> (Feature(x) + w) % 2,
     label |-> [k \in 0..(NUM_CLASSES - 1) |->
                   ((Feature(x) + 7 * w + 3 * k * k) * (k + 1)) % 11]]

(* ------------------------------------------------------------------------ *)
(* Arrays of the training program.  The state holds an image as the         *)
(* expression that produced it, <<op, argument, parameter>>; PixelsOf       *)
(* evaluates the expression with the operators above.                       *)
(*   <<"X_train", i, 0>>   X_train[i] of train(): normalised, channel axis  *)
(*   <<"X_test", j, 0>>    self.X_test[j]: as loaded                        *)
(*   <<"mask", a, k>>      mask(a), its random draws being Draw(k)          *)
(*   <<"generator", a, w>> generator.predict(a) under generator weights w   *)
(* ------------------------------------------------------------------------ *)
TrainImage(i) == <<"X_train", i, 0>>
TestImage(j) == <<"X_test", j, 0>>
Masked(a, k) == <<"mask", a, k>>
Generated(a, w) == <<"generator", a, w>>

RECURSIVE PixelsOf(_)
PixelsOf(a) ==
    IF a[1] = "X_train" THEN ExpandDims(Normalize(X_train[a[2]]))
    ELSE IF a[1] = "X_test" THEN X_test[a[2]]
    ELSE IF a[1] = "mask"
         THEN mask(PixelsOf(a[2]), RANDOM_WALK_LENGTH, VISIBLE_RADIUS,
                   Draw(a[3])[1], Draw(a[3])[2])
    ELSE generator_predict(a[3], PixelsOf(a[2]))

(* trainable flags collected when each model is compiled in __init__ *)
\* "self.discriminator.trainable = False" left out
discriminator_trainable_default == TRUE

(* discriminator.compile runs while discriminator.trainable still has its   *)
(* default True; "self.discriminator.trainable = False" precedes             *)
(* combined.compile                                                         *)
discriminator_trainable == FALSE

DiscriminatorTrainableAtCompile == {"discriminator"}

CombinedTrainableAtCompile ==
    {"generator"} \cup (IF discriminator_trainable THEN {"discriminator"} ELSE {})

CollectedTrainable(model) ==
    IF model = "discriminator" THEN DiscriminatorTrainableAtCompile
    ELSE CombinedTrainableAtCompile

(* np.ones((batch_size, 1)), np.zeros((batch_size, 1)) *)
Valid(batch_size) == [i \in 1..batch_size |-> 1]
Fake(batch_size) == [i \in 1..batch_size |-> 0]

(* ------------------------------------------------------------------------ *)
(* Metrics of test_masked_accuracy.  A quotient a / b is kept as the record *)
(* [num |-> a, den |-> b].                                                  *)
(* ------------------------------------------------------------------------ *)

(* np.argmax of one row: the first index holding the maximum *)
ArgMax(row) ==
    CHOOSE k \in DOMAIN row :
        /\ \A j \in DOMAIN row : row[j] <= row[k]
        /\ \A j \in DOMAIN row : j < k => row[j] < row[k]

PredictedLabels(classifications) ==
    [j \in 1..Len(classifications) |-> ArgMax(classifications[j])]

AccuracyOf(classifications, labels) ==
    LET predicted_labels == PredictedLabels(classifications)
    IN  [num |-> Cardinality({j \in 1..Len(labels) : predicted_labels[j] = labels[j]}),
         den |-> Len(labels)]

\* the numerator counts every image predicted i, whatever its label
RecallOf_AllPredicted(classifications, labels, i) ==
    LET indices == {j \in 1..Len(labels) : labels[j] = i}
    IN  [num |-> Cardinality({j \in 1..Len(labels) : ArgMax(classifications[j]) = i}),
         den |-> Cardinality(indices)]

RecallOf(classifications, labels, i) ==
    LET indices == {j \in 1..Len(labels) : labels[j] = i}
    IN  [num |-> Cardinality({j \in indices : ArgMax(classifications[j]) = i}),
         den |-> Cardinality(indices)]

RecallsOf(classifications, labels) ==
    [i \in 0..9 |-> RecallOf(classifications, labels, i)]

(* ------------------------------------------------------------------------ *)
(* State                                                                    *)
(* ------------------------------------------------------------------------ *)
VARIABLES
    \* one call of mask()
    m_pc, m_image, m_walk_length, m_visible_radius, m_start, m_steps, masked_image,
    \* fields of the ACGAN object
    generator, discriminator, X_test_masked, y_test, accuracy_scores, recall_scores,
    \* train(): arguments, locals and position
    pc, epochs, batch_size, sample_interval, epoch,
    idx, imgs, masked_imgs, gen_imgs, img_labels,
    \* files written by save_model and sample_images
    saved_model, sample_files,
    \* history: the calls since the last progress line, the events of the
    \* train() call, the generator weights at the start of the iteration
    calls, trace, g_before,
    \* input of the metric computation when it is checked on its own
    classifications

maskVars == <<m_pc, m_image, m_walk_length, m_visible_radius,
              m_start, m_steps, masked_image>>
objVars == <<generator, discriminator, X_test_masked, y_test,
             accuracy_scores, recall_scores>>
argVars == <<epochs, batch_size, sample_interval>>
batchVars == <<idx, imgs, masked_imgs, gen_imgs, img_labels>>
fileVars == <<saved_model, sample_files>>
histVars == <<calls, trace, g_before>>

vars == <<maskVars, objVars, pc, argVars, epoch, batchVars, fileVars, histVars,
          classifications>>

MaskIdle ==
    /\ m_pc = "idle"
    /\ m_image = <<>>
    /\ m_walk_length = 0
    /\ m_visible_radius = 0
    /\ m_start = <<0, 0>>
    /\ m_steps = <<>>
    /\ masked_image = <<>>

TrainIdle ==
    /\ pc = "idle"
    /\ epochs = 0 /\ batch_size = 0 /\ sample_interval = 0 /\ epoch = 0
    /\ idx = <<>> /\ imgs = <<>> /\ masked_imgs = <<>> /\ gen_imgs = <<>>
    /\ img_labels = <<>>
    /\ saved_model = <<>> /\ sample_files = {}
    /\ calls = <<>> /\ trace = <<>> /\ g_before = 0

(* ------------------------------------------------------------------------ *)
(* Specification of one call of mask()                                      *)
(* ------------------------------------------------------------------------ *)
InitMask ==
    /\ m_pc = "call"
    /\ m_image \in MaskInputs
    /\ \E args \in MaskArgs : m_walk_length = args[1] /\ m_visible_radius = args[2]
    /\ m_start \in Starts
    /\ m_steps \in WalkSteps
    /\ masked_image = <<>>
    /\ TrainIdle
    /\ generator = 0 /\ discriminator = 0 /\ X_test_masked = <<>> /\ y_test = <<>>
    /\ accuracy_scores = <<>> /\ recall_scores = <<>>
    /\ classifications = <<>>

MaskCall ==
    /\ m_pc = "call"
    /\ masked_image' = mask(m_image, m_walk_length, m_visible_radius, m_start, m_steps)
    /\ m_pc' = "done"
    /\ UNCHANGED <<m_image, m_walk_length, m_visible_radius, m_start, m_steps>>
    /\ UNCHANGED <<objVars, pc, argVars, epoch, batchVars, fileVars, histVars,
                   classifications>>

NextMask == MaskCall

SpecMask == InitMask /\ [][NextMask]_vars

(* ------------------------------------------------------------------------ *)
(* Specification of the program: ACGAN() followed by train(...)             *)
(* ------------------------------------------------------------------------ *)

(* state after ACGAN.__init__: initial weights, the test set masked once *)
Init ==
    /\ MaskIdle
    /\ generator = 0
    /\ discriminator = 0
    /\ \E draws \in [1..TestN -> DrawIds] :
          X_test_masked = [j \in 1..TestN |-> Masked(TestImage(j), draws[j])]
    /\ y_test = Y_test
    /\ accuracy_scores = <<>>
    /\ recall_scores = <<>>
    /\ TrainIdle
    /\ classifications = <<>>

(* where the loop goes once iteration e is over (range(epochs)) *)
AfterIteration(e, n) == IF e + 1 < n THEN "select" ELSE "returned"

Event(name) == <<name, epoch>>

(* train(epochs, batch_size, sample_interval) is entered *)
TrainCall ==
    /\ pc = "idle"
    /\ \E e \in 0..MaxEpochs, b \in 1..MaxBatch, s \in 1..MaxInterval :
          /\ epochs' = e
          /\ batch_size' = b
          /\ sample_interval' = s
          /\ pc' = IF 0 < e THEN "select" ELSE "returned"
    /\ epoch' = 0
    /\ trace' = <<>>
    /\ UNCHANGED <<maskVars, objVars, batchVars, fileVars, calls, g_before,
                   classifications>>

(* idx = np.random.randint(0, X_train.shape[0], batch_size); imgs = X_train[idx] *)
SelectBatch ==
    /\ pc = "select"
    /\ \E ix \in [1..batch_size -> 1..TrainN] :
          /\ idx' = ix
          /\ imgs' = [i \in 1..batch_size |-> TrainImage(ix[i])]
          /\ calls' = <<[op |-> "np.random.randint", x |-> ix,
                          validity |-> <<>>, labels |-> <<>>]>>
    /\ g_before' = generator
    /\ pc' = "mask"
    /\ UNCHANGED <<maskVars, objVars, argVars, epoch, masked_imgs, gen_imgs,
                   img_labels, fileVars, trace, classifications>>

(* masked_imgs = np.array([mask(img) for img in imgs]) *)
MaskBatch ==
    /\ pc = "mask"
    /\ \E draws \in [1..batch_size -> DrawIds] :
          masked_imgs' = [i \in 1..batch_size |-> Masked(imgs[i], draws[i])]
    /\ calls' = Append(calls, [op |-> "mask", x |-> imgs,
                               validity |-> <<>>, labels |-> <<>>])
    /\ pc' = "predict"
    /\ UNCHANGED <<maskVars, objVars, argVars, epoch, idx, imgs, gen_imgs,
                   img_labels, fileVars, trace, g_before, classifications>>

(* gen_imgs = self.generator.predict(masked_imgs) *)
GeneratePredict ==
    /\ pc = "predict"
    /\ gen_imgs' = [i \in 1..batch_size |-> Generated(masked_imgs[i], generator)]
    /\ calls' = Append(calls, [op |-> "generator.predict", x |-> masked_imgs,
                               validity |-> <<>>, labels |-> <<>>])
    /\ pc' = "labels"
    /\ UNCHANGED <<maskVars, objVars, argVars, epoch, idx, imgs, masked_imgs,
                   img_labels, fileVars, trace, g_before, classifications>>

(* img_labels = y_train[idx] *)
SelectLabels ==
    /\ pc = "labels"
    /\ img_labels' = [i \in 1..batch_size |-> y_train[idx[i]]]
    /\ pc' = "d_real"
    /\ UNCHANGED <<maskVars, objVars, argVars, epoch, idx, imgs, masked_imgs,
                   gen_imgs, fileVars, histVars, classifications>>

(* model.train_on_batch(x, [validity, labels]): the networks whose weights  *)
(* were trainable when the model was compiled are updated                   *)
TrainOnBatch(model, x, validity, labels) ==
    /\ generator' = IF "generator" \in CollectedTrainable(model)
                    THEN generator + 1 ELSE generator
    /\ discriminator' = IF "discriminator" \in CollectedTrainable(model)
                        THEN discriminator + 1 ELSE discriminator
    /\ calls' = Append(calls, [op |-> model \o ".train_on_batch", x |-> x,
                               validity |-> validity, labels |-> labels])

(* d_loss_real = self.discriminator.train_on_batch(imgs, [valid, img_labels]) *)
TrainDiscriminatorReal ==
    /\ pc = "d_real"
    /\ TrainOnBatch("discriminator", imgs, Valid(batch_size), img_labels)
    /\ pc' = "d_fake"
    /\ UNCHANGED <<maskVars, X_test_masked, y_test, accuracy_scores, recall_scores,
                   argVars, epoch, batchVars, fileVars, trace, g_before,
                   classifications>>

\* the generated images are given the target valid
TrainDiscriminatorFake_ValidTarget ==
    /\ pc = "d_fake"
    /\ TrainOnBatch("discriminator", gen_imgs, Valid(batch_size), img_labels)
    /\ pc' = "g_train"
    /\ UNCHANGED <<maskVars, X_test_masked, y_test, accuracy_scores, recall_scores,
                   argVars, epoch, batchVars, fileVars, trace, g_before,
                   classifications>>

(* d_loss_fake = self.discriminator.train_on_batch(gen_imgs, [fake, img_labels]) *)
TrainDiscriminatorFake ==
    /\ pc = "d_fake"
    /\ TrainOnBatch("discriminator", gen_imgs, Fake(batch_size), img_labels)
    /\ pc' = "g_train"
    /\ UNCHANGED <<maskVars, X_test_masked, y_test, accuracy_scores, recall_scores,
                   argVars, epoch, batchVars, fileVars, trace, g_before,
                   classifications>>

(* g_loss = self.combined.train_on_batch(masked_imgs, [valid, img_labels]) *)
TrainGenerator ==
    /\ pc = "g_train"
    /\ TrainOnBatch("combined", masked_imgs, Valid(batch_size), img_labels)
    /\ trace' = Append(trace, Event("combined.train_on_batch"))
    /\ pc' = "print"
    /\ UNCHANGED <<maskVars, X_test_masked, y_test, accuracy_scores, recall_scores,
                   argVars, epoch, batchVars, fileVars, g_before, classifications>>

(* idx, imgs, masked_imgs, gen_imgs and img_labels are dead once the        *)
(* progress line is printed (each is assigned again before it is read);    *)
(* the model forgets them, and starts the history of calls afresh          *)
ForgetBatch ==
    /\ idx' = <<>> /\ imgs' = <<>> /\ masked_imgs' = <<>> /\ gen_imgs' = <<>>
    /\ img_labels' = <<>>
    /\ calls' = <<>>

\* the checkpoint test taken on epoch + 1
PrintProgress_OffByOne ==
    /\ pc = "print"
    /\ IF (epoch + 1) % sample_interval = 0
       THEN pc' = "save_model" /\ epoch' = epoch
       ELSE pc' = AfterIteration(epoch, epochs) /\ epoch' = epoch + 1
    /\ ForgetBatch
    /\ UNCHANGED <<maskVars, objVars, argVars, fileVars, trace, g_before,
                   classifications>>

(* print the progress; if epoch % sample_interval == 0: ... *)
PrintProgress ==
    /\ pc = "print"
    /\ IF epoch % sample_interval = 0
       THEN pc' = "save_model" /\ epoch' = epoch
       ELSE pc' = AfterIteration(epoch, epochs) /\ epoch' = epoch + 1
    /\ ForgetBatch
    /\ UNCHANGED <<maskVars, objVars, argVars, fileVars, trace, g_before,
                   classifications>>

(* self.save_model(): architecture and weights of both networks go to files *)
SaveModel ==
    /\ pc = "save_model"
    /\ saved_model' = [generator |-> generator, discriminator |-> discriminator]
    /\ trace' = Append(trace, Event("save_model"))
    /\ pc' = "sample_images"
    /\ UNCHANGED <<maskVars, objVars, argVars, epoch, batchVars, sample_files,
                   calls, g_before, classifications>>

(* self.sample_images(epoch): the first r*c test images are masked afresh,  *)
(* passed through the generator and the figure is saved as images/<epoch>   *)
SampleImages ==
    /\ pc = "sample_images"
    /\ LET n == Min(10 * 10, TestN)
       IN  \E draws \in [1..n -> DrawIds] :
              calls' = Append(calls,
                  [op |-> "generator.predict",
                   x |-> [j \in 1..n |-> Masked(TestImage(j), draws[j])],
                   validity |-> <<>>, labels |-> <<>>])
    /\ sample_files' = sample_files \cup {epoch}
    /\ trace' = Append(trace, Event("sample_images"))
    /\ pc' = "test_masked_accuracy"
    /\ UNCHANGED <<maskVars, objVars, argVars, epoch, batchVars, saved_model,
                   g_before, classifications>>

(* accuracy and per-class recall of the predictions are appended, tagged    *)
(* with the epoch                                                           *)
RecordMetrics(cls) ==
    /\ accuracy_scores' = Append(accuracy_scores, <<AccuracyOf(cls, y_test), epoch>>)
    /\ recall_scores' = Append(recall_scores, <<RecallsOf(cls, y_test), epoch>>)

(* self.test_masked_accuracy(epoch) *)
TestMaskedAccuracy ==
    /\ pc = "test_masked_accuracy"
    /\ RecordMetrics([j \in 1..Len(X_test_masked) |->
            discriminator_predict(discriminator, PixelsOf(X_test_masked[j])).label])
    /\ calls' = Append(calls, [op |-> "discriminator.predict", x |-> X_test_masked,
                               validity |-> <<>>, labels |-> <<>>])
    /\ trace' = Append(trace, Event("test_masked_accuracy"))
    /\ pc' = AfterIteration(epoch, epochs)
    /\ epoch' = epoch + 1
    /\ UNCHANGED <<maskVars, generator, discriminator, X_test_masked, y_test,
                   argVars, batchVars, fileVars, g_before, classifications>>

Next ==
    \/ TrainCall
    \/ SelectBatch
    \/ MaskBatch
    \/ GeneratePredict
    \/ SelectLabels
    \/ TrainDiscriminatorReal
    \/ TrainDiscriminatorFake
    \/ TrainGenerator
    \/ PrintProgress
    \/ SaveModel
    \/ SampleImages
    \/ TestMaskedAccuracy

Spec == Init /\ [][Next]_vars

(* ------------------------------------------------------------------------ *)
(* Specification of the metric computation of test_masked_accuracy on its   *)
(* own: the class scores and the test labels are inputs                     *)
(* ------------------------------------------------------------------------ *)
AllLabels == [i \in 1..NUM_CLASSES |-> i - 1]

TestLabelings ==
    {SubSeq(AllLabels, 1, n) \o e :
        n \in (NUM_CLASSES - MaxMissing)..NUM_CLASSES,
        e \in UNION {[1..m -> 0..MaxExtra] : m \in 0..MaxExtra}}

(* a row of scores with its maximum at class k, and a row of equal scores *)
PeakRow(k) == [c \in 0..(NUM_CLASSES - 1) |-> IF c = k THEN 9 ELSE 1]
TieRow == [c \in 0..(NUM_CLASSES - 1) |-> 5]

ScoresFor(labels) ==
    UNION {{[j \in 1..Len(labels) |->
                IF j \in wrong
                THEN (IF j \in tied THEN TieRow
                      ELSE PeakRow((labels[j] + 1) % NUM_CLASSES))
                ELSE PeakRow(labels[j])] : tied \in SUBSET wrong} :
           wrong \in {w \in SUBSET (1..Len(labels)) : Cardinality(w) <= MaxErrors}}

InitEval ==
    /\ MaskIdle
    /\ TrainIdle
    /\ generator = 0 /\ discriminator = 0 /\ X_test_masked = <<>>
    /\ y_test \in TestLabelings
    /\ classifications \in ScoresFor(y_test)
    /\ accuracy_scores = <<>>
    /\ recall_scores = <<>>

EvalCall ==
    /\ pc = "idle"
    /\ RecordMetrics(classifications)
    /\ pc' = "evaluated"
    /\ UNCHANGED <<maskVars, generator, discriminator, X_test_masked, y_test,
                   argVars, epoch, batchVars, fileVars, histVars, classifications>>

NextEval == EvalCall

SpecEval == InitEval /\ [][NextEval]_vars

(* ------------------------------------------------------------------------ *)
(* Reference definitions used by the properties of mask()                   *)
(* ------------------------------------------------------------------------ *)
(* the positions reached after steps 1..n *)
RECURSIVE PositionsAfter(_, _, _)
PositionsAfter(n, start, steps) ==
    IF n = 0 THEN <<>>
    ELSE LET ps == PositionsAfter(n - 1, start, steps)
         IN  Append(ps, Move(IF n = 1 THEN start ELSE ps[n - 1], steps[n]))

(* the square window of side 2*r+1 centred on p, clipped to the grid *)
ClippedWindow(p, r) ==
    (Max(0, p[1] - r)..Min(IMG_SIZE - 1, p[1] + r))
        \X (Max(0, p[2] - r)..Min(IMG_SIZE - 1, p[2] + r))

(* union of the clipped windows around the positions after steps 1..n *)
VisibleRegion(start, steps, n, r) ==
    LET ps == PositionsAfter(n, start, steps)
    IN  UNION {ClippedWindow(ps[i], r) : i \in 1..n}

MaskedAs(result, image, region) ==
    \A c \in Cells : result.px[c] = (IF c \in region THEN image.px[c] ELSE 0)

(* C1: mask(image) is 0 outside the visibility region and equals the input *)
(* inside it, the region being the union of the clipped windows of side    *)
(* 2*VISIBLE_RADIUS+1 around the positions reached after each walk step.   *)
C1_MaskIsRegion ==
    m_pc = "done" =>
        MaskedAs(masked_image, m_image,
                 VisibleRegion(m_start, m_steps, RANDOM_WALK_LENGTH, VISIBLE_RADIUS))

\* a walk that leaves the grid (clipping happens) and still hides and reveals pixels
C1_Witness ==
    /\ m_pc = "done"
    /\ \E i \in 1..RANDOM_WALK_LENGTH :
          PositionsAfter(RANDOM_WALK_LENGTH, m_start, m_steps)[i][1] < 0
    /\ \E c \in Cells : masked_image.px[c] = 0 /\ m_image.px[c] # 0
    /\ \E c \in Cells : masked_image.px[c] # 0

(* C2: the walk has walk_length steps and the window has radius            *)
(* visible_radius, the values of the arguments passed by the caller.       *)
C2_ArgumentsHonoured ==
    m_pc = "done" =>
        MaskedAs(masked_image, m_image,
                 VisibleRegion(m_start, m_steps, m_walk_length, m_visible_radius))

(* ------------------------------------------------------------------------ *)
(* Properties of the training program                                       *)
(* ------------------------------------------------------------------------ *)
NetworkOps == {"generator.predict", "discriminator.predict",
               "discriminator.train_on_batch", "combined.train_on_batch"}

LastCall == calls[Len(calls)]

(* C3: at every evaluation the discriminator is given the generator's      *)
(* output for the masked test images (the combined model is evaluated).    *)
C3_EvaluatesCombinedModel ==
    (calls # <<>> /\ LastCall.op = "discriminator.predict") =>
        LastCall.x = [j \in 1..Len(X_test_masked) |->
                         Generated(X_test_masked[j], generator)]

(* the events of a whole call train(n, _, s) *)
RECURSIVE ExpectedTrace(_, _)
ExpectedTrace(n, s) ==
    IF n = 0 THEN <<>>
    ELSE ExpectedTrace(n - 1, s)
         \o <<<<"combined.train_on_batch", n - 1>>>>
         \o (IF (n - 1) % s = 0
             THEN << <<"save_model", n - 1>>, <<"sample_images", n - 1>>,
                     <<"test_masked_accuracy", n - 1>> >>
             ELSE <<>>)

IsPrefix(p, q) == Len(p) <= Len(q) /\ SubSeq(q, 1, Len(p)) = p

CeilDiv(a, b) == (a + b - 1) \div b

(* C4: the checkpoint actions run at iteration e iff e mod sample_interval *)
(* = 0, in the order save_model, sample_images, test_masked_accuracy and   *)
(* after that iteration's generator update; the call appends exactly       *)
(* ceil(epochs / sample_interval) accuracy entries, tagged 0,              *)
(* sample_interval, 2*sample_interval, ...                                 *)
C4_CheckpointSchedule ==
    pc # "idle" =>
        /\ IsPrefix(trace, ExpectedTrace(epochs, sample_interval))
        /\ pc = "returned" =>
              /\ trace = ExpectedTrace(epochs, sample_interval)
              /\ Len(accuracy_scores) = CeilDiv(epochs, sample_interval)
              /\ \A k \in 1..Len(accuracy_scores) :
                    accuracy_scores[k][2] = (k - 1) * sample_interval

\* a call with an iteration that checkpoints and one that does not
C4_Witness ==
    /\ pc = "returned"
    /\ epochs = 2 /\ sample_interval = 2
    /\ Len(accuracy_scores) = 1

Call(op, x, validity, labels) ==
    [op |-> op, x |-> x, validity |-> validity, labels |-> labels]

(* C5: in every iteration, on one sampled batch: the indices are drawn,    *)
(* their images masked, the generator (weights as before the iteration's   *)
(* updates) run on the masked images, the discriminator updated on the     *)
(* real images with target valid, then on the generated images with target *)
(* fake, then the generator updated through the combined model on the same *)
(* masked images with target valid; all three with the batch labels.       *)
C5_IterationOrder ==
    pc = "print" =>
        LET b == batch_size
            ones == [i \in 1..b |-> 1]
            zeros == [i \in 1..b |-> 0]
            batch == [i \in 1..b |-> TrainImage(idx[i])]
            batch_labels == [i \in 1..b |-> y_train[idx[i]]]
        IN  /\ Len(idx) = b
            /\ Len(masked_imgs) = b
            /\ \A i \in 1..b : /\ masked_imgs[i][1] = "mask"
                               /\ masked_imgs[i][2] = batch[i]
            /\ calls = << Call("np.random.randint", idx, <<>>, <<>>),
                          Call("mask", batch, <<>>, <<>>),
                          Call("generator.predict", masked_imgs, <<>>, <<>>),
                          Call("discriminator.train_on_batch", batch, ones,
                               batch_labels),
                          Call("discriminator.train_on_batch",
                               [i \in 1..b |-> Generated(masked_imgs[i], g_before)],
                               zeros, batch_labels),
                          Call("combined.train_on_batch", masked_imgs, ones,
                               batch_labels) >>

\* an iteration on a batch of two different images is complete
C5_Witness ==
    /\ pc = "print"
    /\ batch_size = 2
    /\ idx[1] # idx[2]
    /\ Len(calls) = 6

(* C6: a generator-training step leaves the discriminator's weights         *)
(* unchanged, the discriminator's weights change only in the two           *)
(* discriminator.train_on_batch steps, and those steps leave the           *)
(* generator's weights unchanged.                                          *)
C6_OnlyGeneratorTrained ==
    [][ /\ (pc = "g_train" => discriminator' = discriminator)
        /\ (discriminator' # discriminator => pc \in {"d_real", "d_fake"})
        /\ (pc \in {"d_real", "d_fake"} => generator' = generator) ]_vars

\* the three training steps have acted and both networks have new weights
C6_Witness ==
    /\ pc = "print"
    /\ generator # g_before
    /\ discriminator # 0
    /\ epoch = 0

InUnitRange(a) ==
    LET im == PixelsOf(a)
    IN  \A c \in Cells : -UNIT <= im.px[c] /\ im.px[c] <= UNIT

(* C8: every image handed to the generator or the discriminator, in        *)
(* training, sampling and evaluation, has pixel values in [-1,1].          *)
C8_InputsNormalized ==
    (calls # <<>> /\ LastCall.op \in NetworkOps) =>
        \A j \in 1..Len(LastCall.x) : InUnitRange(LastCall.x[j])

(* ------------------------------------------------------------------------ *)
(* Properties of the metrics                                                *)
(* ------------------------------------------------------------------------ *)
RECURSIVE CountTo(_, _, _)
(* number of j in 1..n with predicted[j] = labels[j] and labels[j] in classes *)
CountTo(n, predicted, classes) ==
    IF n = 0 THEN 0
    ELSE CountTo(n - 1, predicted, classes)
         + (IF predicted[n] = y_test[n] /\ y_test[n] \in classes THEN 1 ELSE 0)

RECURSIVE Occurrences(_, _)
Occurrences(n, i) ==
    IF n = 0 THEN 0 ELSE Occurrences(n - 1, i) + (IF y_test[n] = i THEN 1 ELSE 0)

RECURSIVE SumNum(_, _)
SumNum(recalls, i) ==
    IF i < 0 THEN 0 ELSE SumNum(recalls, i - 1) + recalls[i].num

InZeroOne(q) == q.den > 0 /\ 0 <= q.num /\ q.num <= q.den

(* C7: the recorded accuracy is (#test images predicted correctly) / (#test *)
(* images), the recorded recall of class i is (#images of class i predicted *)
(* i) / (#images of class i), the correct count equals the sum of the      *)
(* per-class correct counts, and all values are in [0,1] when every class  *)
(* occurs in the test set.                                                 *)
C7_Metrics ==
    pc = "evaluated" =>
        LET n == Len(y_test)
            predicted == PredictedLabels(classifications)
            accuracy == accuracy_scores[Len(accuracy_scores)][1]
            recalls == recall_scores[Len(recall_scores)][1]
            classes == 0..(NUM_CLASSES - 1)
        IN  /\ accuracy.num = CountTo(n, predicted, classes)
            /\ accuracy.den = n
            /\ \A i \in classes :
                  /\ recalls[i].num = CountTo(n, predicted, {i})
                  /\ recalls[i].den = Occurrences(n, i)
            /\ accuracy.num = SumNum(recalls, NUM_CLASSES - 1)
            /\ (\A i \in classes : \E j \in 1..n : y_test[j] = i) =>
                  /\ InZeroOne(accuracy)
                  /\ \A i \in classes : InZeroOne(recalls[i])

\* every class occurs and one image is misclassified, its row being tied
C7_Witness ==
    /\ pc = "evaluated"
    /\ \A i \in 0..(NUM_CLASSES - 1) : \E j \in 1..Len(y_test) : y_test[j] = i
    /\ Len(y_test) > NUM_CLASSES
    /\ accuracy_scores[1][1].num = Len(y_test) - 1
    /\ \E j \in 1..Len(y_test) : classifications[j] = TieRow

====
